---- MODULE Spec2Model ----
(***************************************************************************)
(* postgresql-query: query execution over a pooled PostgreSQL client.      *)
(*                                                                         *)
(* The model follows the pool-based API of src/postgresql-query.js (the    *)
(* definitions from line 432 on, which replace the earlier ones of the     *)
(* same names): query / queryStandard / queryObject / queryArray,          *)
(* newTransaction and the transaction object of getTransactionObject.      *)
(* Every call of the API occupies a slot; a slot moves from one await to   *)
(* the next in one step.  pg.Pool and pg.Client are the environment: the   *)
(* pool hands out idle connections or fails, a connection answers the      *)
(* statements sent on it in the order they were sent.                      *)
(***************************************************************************)
EXTENDS Integers, Sequences, FiniteSets, TLC

\* ------------------------------------------------------------------ bounds
MaxCalls == 2
PoolSize == 2
MaxTasks == 2
MaxRows == 1
MaxEndCalls == 2
MaxFields == 3
MaxWhere == 2
MaxNodes == 6
MaxMixedNodes == 4

Slots == 1..MaxCalls
Conns == 1..PoolSize

\* `let client;` before pool.connect() has resolved: no connection.
NoConn == 0

VARIABLES
    call,      \* per slot: the activation record of one API call and its log
    pool,      \* pg.Pool: the connections currently checked out
    queue,     \* pg.Client: per connection, the slots awaiting an answer, FIFO
    tx,        \* the transaction object made by getTransactionObject
    txLog,     \* what commit()/rollback() have done with the handle so far:
               \* calls made, client.release() calls, releases the pool took
    callers,   \* "one": a call is made only when no other is in flight;
               \* "many": calls overlap
    data,      \* the statement descriptor handed to the query builder
    built,     \* what the builder returned for it: { sql, values }
    sent,      \* what an entry point handed to client.query for it: sql, values
    args,      \* the arguments flatArray is called with
    flat       \* what flatArray returned for them

vars == <<call, pool, queue, tx, txLog, callers, data, built, sent, args, flat>>

\* ------------------------------------------------------------------ values
\* A task of a batch, or the argument of a single call: a raw [sql, ...params]
\* array, or a statement descriptor with or without a `where` member.
RawTask == [isObject |-> FALSE, where |-> FALSE]
InsertDescriptor == [isObject |-> TRUE, where |-> FALSE]
UpdateDescriptor == [isObject |-> TRUE, where |-> TRUE]
Tasks == {RawTask, InsertDescriptor, UpdateDescriptor}
Descriptors == {InsertDescriptor, UpdateDescriptor}

RECURSIVE SeqsUpTo(_, _)
SeqsUpTo(S, n) ==
    IF n = 0 THEN {<<>>}
    ELSE LET shorter == SeqsUpTo(S, n - 1)
         IN  shorter \cup {Append(q, x) : q \in {r \in shorter : Len(r) = n - 1}, x \in S}

TaskLists == SeqsUpTo(Tasks, MaxTasks)

\* isObject(): Object.prototype.toString.call(obj) === '[object Object]'.
isObject(item) == item.isObject

\* A statement as handed to client.query: its verb and the task it was made for
\* (task 0 for a single statement, i for the i-th task of a batch).
Stmt(verb, i) == [verb |-> verb, task |-> i]
NoStmt == Stmt("", 0)

\* `item.where ? buildUpdateQuery(item) : buildInsertQuery(item)` for a
\* descriptor, `item[0]` for a raw task.
StatementFor(item, i) ==
    IF isObject(item)
    THEN (IF item.where THEN Stmt("UPDATE", i) ELSE Stmt("INSERT", i))
    ELSE Stmt("RAW", i)

\* What a caller can be handed: result.rows of a statement (a sequence of n rows,
\* or undefined when the driver's result carries no rows), one row object, null,
\* or the transaction object.  `task` tells which statement the rows answer.
Entry(shape, i, n) == [shape |-> shape, task |-> i, n |-> n]
Rows(i, n) == Entry("rows", i, n)
UndefinedRows(i) == Entry("undefined", i, 0)
RowObject(i) == Entry("row", i, 1)
Null == Entry("null", 0, 0)
Handle == Entry("transaction", 0, 0)
Undefined == UndefinedRows(0)

\* rows[k]: the row at index k of a row sequence, undefined past its end.
ElementOf(rows, k) == IF k < rows.n THEN Entry("element", rows.task, k) ELSE Undefined

\* Every result.rows the driver may answer a statement of task i with.
RowsOutcomes(i) == {Rows(i, n) : n \in 0..MaxRows} \cup {UndefinedRows(i)}

\* Error values.
NoError == [type |-> "null", task |-> 0]
ConnectionError == [type |-> "ConnectionError", task |-> 0]
StatementError(i) == [type |-> "StatementError", task |-> i]
CallbackError == [type |-> "thrown by callback", task |-> 0]
ReferenceError == [type |-> "ReferenceError: client is not defined", task |-> 0]
ReleaseError == [type |-> "Release called on client which has already been released", task |-> 0]
InvalidQueryType == [type |-> "Invalid query type", task |-> 0]
InvalidParameters == [type |-> "Invalid parameters for insert() / update()", task |-> 0]
TypeError == [type |-> "TypeError: cannot read property '0' of undefined", task |-> 0]

\* One entry of a call's log.
Event(ev, c, stmt, rows) == [ev |-> ev, conn |-> c, stmt |-> stmt, rows |-> rows]

\* One thing the caller received: callback(err, ...val) or the settled promise.
Delivery(via, err, val) == [via |-> via, err |-> err, val |-> val]

IdleCall ==
    [kind |-> "none", pc |-> "idle", hasCallback |-> FALSE, list |-> <<>>,
     idx |-> 0, results |-> <<>>, client |-> NoConn, trace |-> <<>>,
     out |-> <<>>, uncaught |-> NoError, afterEnd |-> FALSE, before |-> 0]

NoTransaction == [made |-> FALSE, isActive |-> FALSE, client |-> NoConn]
EmptyTxLog == [endCalls |-> 0, releaseCalls |-> 0, released |-> 0, ended |-> FALSE]

\* ------------------------------------------------------------------ helpers
NoneDone == \A t \in Slots : call[t].pc # "done"

\* A call can be made in slot s.
Idle(s) ==
    /\ call[s].pc = "idle"
    /\ NoneDone
    /\ callers = "one" => s = 1

\* What overlapping callers ask for is kept plain, since who holds which
\* connection does not depend on it: batches of at most one task, full row
\* sets, callbacks that return.
ListsAsked == IF callers = "one" THEN TaskLists ELSE {l \in TaskLists : Len(l) <= 1}
RowsAnswered(i) == IF callers = "one" THEN RowsOutcomes(i) ELSE {Rows(i, MaxRows)}
CallbackMayThrow == IF callers = "one" THEN BOOLEAN ELSE {FALSE}

Awaiting(s, kind, pc) == call[s].kind = kind /\ call[s].pc = pc /\ NoneDone

\* The answer of connection c is due to slot s.
Answers(s) ==
    /\ call[s].client # NoConn
    /\ queue[call[s].client] # <<>>
    /\ Head(queue[call[s].client]) = s

Log(r, e) == [r EXCEPT !.trace = Append(@, e)]

Count(trace, ev) == Cardinality({i \in 1..Len(trace) : trace[i].ev = ev})

\* pool.connect() resolved with c.
Checkout(c) == pool \cup {c}

\* client.release().
Release(c) == pool \ {c}

\* A pooled call up to its `await pool.connect()`.
Connecting(kind, cb, list) ==
    Log([IdleCall EXCEPT !.kind = kind, !.pc = "connect", !.hasCallback = cb,
                         !.list = list, !.before = Cardinality(pool)],
        Event("connect", NoConn, NoStmt, Null))

\* ------------------------------------------------------------------ delivery
\* try { ...; callback(null, val) | pr.resolve(val) } catch (err) { callback(err,
\* null) | pr.reject(err) }: the success path.  A callback that throws inside
\* the try block lands in the catch block, which calls it again with the error.
DeliverSuccess(hasCallback, val, throws) ==
    IF hasCallback
    THEN IF throws
         THEN <<Delivery("callback", NoError, val),
                Delivery("callback", CallbackError, <<Null>>)>>
         ELSE <<Delivery("callback", NoError, val)>>
    ELSE <<Delivery("promise", NoError, val)>>

\* catch (err) { callback(err, null) | pr.reject(err) }
DeliverError(hasCallback, err) ==
    IF hasCallback
    THEN <<Delivery("callback", err, <<Null>>)>>
    ELSE <<Delivery("promise", err, <<Null>>)>>

\* A finally block without its `if (client)` guard.
FinallyAlwaysReleases(client) == TRUE

\* finally { if (client) { client.release(); } }
FinallyReleases(client) == client # NoConn

\* client.release() at the end of the try block instead of a finally block.
FinallyOnSuccessOnly(r) ==
    IF FinallyReleases(r.client) /\ r.out[1].err = NoError
    THEN Log(r, Event("release", r.client, NoStmt, Null))
    ELSE r

Finally(r) ==
    IF FinallyReleases(r.client)
    THEN Log(r, Event("release", r.client, NoStmt, Null))
    ELSE r

PoolAfterFinally(r) ==
    IF FinallyReleases(r.client) THEN Release(r.client) ELSE pool

\* ------------------------------------------------------------------ single statements
\* query(sql, ...values[, callback]) -> queryStandard, up to `await pool.connect()`.
queryStandard(s) ==
    /\ Idle(s)
    /\ \E cb \in BOOLEAN :
         call' = [call EXCEPT ![s] = Connecting("standard", cb, <<>>)]
    /\ UNCHANGED <<pool, queue, tx, txLog, callers, data, built, sent, args, flat>>

\* query(obj[, callback]), insert(obj), update(obj) -> queryObject.
queryObject(s) ==
    /\ Idle(s)
    /\ \E cb \in BOOLEAN, obj \in Descriptors :
         call' = [call EXCEPT ![s] = Connecting("object", cb, <<obj>>)]
    /\ UNCHANGED <<pool, queue, tx, txLog, callers, data, built, sent, args, flat>>

\* The function called decides the statement: insert() inserts and update()
\* updates, whatever the descriptor holds.
SingleStatementByEntryPoint(r) ==
    IF r.kind = "insert" THEN Stmt("INSERT", 0)
    ELSE IF r.kind = "update" THEN Stmt("UPDATE", 0)
    ELSE IF r.kind \in {"object", "txObject", "oneObject"}
    THEN StatementFor(r.list[1], 0)
    ELSE Stmt("RAW", 0)

\* The statement a single-statement call sends.
SingleStatement(r) ==
    IF r.kind \in {"object", "txObject", "oneObject", "insert", "update"}
    THEN StatementFor(r.list[1], 0)
    ELSE Stmt("RAW", 0)

\* pool.connect() resolves: `client = await pool.connect()`, then client.query(...)
\* is sent and awaited.
SingleConnected(s, kind) ==
    /\ Awaiting(s, kind, "connect")
    /\ \E c \in Conns \ pool :
         /\ pool' = Checkout(c)
         /\ queue' = [queue EXCEPT ![c] = Append(@, s)]
         /\ call' = [call EXCEPT ![s] =
                LET r == [call[s] EXCEPT !.client = c, !.pc = "query"]
                IN  Log(Log(r, Event("acquire", c, NoStmt, Null)),
                        Event("send", c, SingleStatement(r), Null))]
    /\ UNCHANGED <<tx, txLog, callers, data, built, sent, args, flat>>

\* pool.connect() rejects: catch, then finally with client still undefined.
SingleConnectFailed(s, kind) ==
    /\ Awaiting(s, kind, "connect")
    /\ call' = [call EXCEPT ![s] =
           Finally([call[s] EXCEPT !.pc = "done",
                       !.out = DeliverError(call[s].hasCallback, ConnectionError)])]
    /\ UNCHANGED <<pool, queue, tx, txLog, callers, data, built, sent, args, flat>>

\* client.query resolves: the result's rows are delivered; then, in queryStandard
\* and queryObject (pooled), the finally block.  transactionQueryStandard and
\* transactionQueryObject have no finally block.
SingleResult(s, kind, pooled) ==
    /\ Awaiting(s, kind, "query")
    /\ Answers(s)
    /\ \E rows \in RowsAnswered(0), throws \in CallbackMayThrow :
         LET r == Log([call[s] EXCEPT !.pc = "done",
                          !.out = DeliverSuccess(call[s].hasCallback, <<rows>>, throws)],
                      Event("ok", call[s].client, SingleStatement(call[s]), rows))
         IN  /\ call' = [call EXCEPT ![s] = IF pooled THEN Finally(r) ELSE r]
             /\ pool' = IF pooled THEN PoolAfterFinally(r) ELSE pool
    /\ queue' = [queue EXCEPT ![call[s].client] = Tail(@)]
    /\ UNCHANGED <<tx, txLog, callers, data, built, sent, args, flat>>

\* client.query rejects: catch; then, when pooled, finally.
SingleError(s, kind, pooled) ==
    /\ Awaiting(s, kind, "query")
    /\ Answers(s)
    /\ LET r == Log([call[s] EXCEPT !.pc = "done",
                        !.out = DeliverError(call[s].hasCallback, StatementError(0))],
                    Event("err", call[s].client, SingleStatement(call[s]), Null))
       IN  /\ call' = [call EXCEPT ![s] = IF pooled THEN Finally(r) ELSE r]
           /\ pool' = IF pooled THEN PoolAfterFinally(r) ELSE pool
    /\ queue' = [queue EXCEPT ![call[s].client] = Tail(@)]
    /\ UNCHANGED <<tx, txLog, callers, data, built, sent, args, flat>>

queryStandardConnected(s) == SingleConnected(s, "standard")
queryStandardConnectFailed(s) == SingleConnectFailed(s, "standard")
queryStandardResult(s) == SingleResult(s, "standard", TRUE)
queryStandardError(s) == SingleError(s, "standard", TRUE)

queryObjectConnected(s) == SingleConnected(s, "object")
queryObjectConnectFailed(s) == SingleConnectFailed(s, "object")
queryObjectResult(s) == SingleResult(s, "object", TRUE)
queryObjectError(s) == SingleError(s, "object", TRUE)

\* ------------------------------------------------------------------ batches
\* results.unshift(result.rows)
PushResultFront(results, rows) == <<rows>> \o results

\* results.push(result.rows)
PushResult(results, rows) == Append(results, rows)

\* A try/catch inside the loop body: a rejected await does not leave the loop.
ContinuesAfterAnyAnswer(r, failed) == r.idx < Len(r.list)

\* `for (let item of list) { ...; await client.query(...); ... }` inside try: the
\* loop goes on to the next item after an answer, and is left for the catch
\* block by a rejected await.  r.idx is the task just answered (0 before the
\* first).
ContinuesAfter(r, failed) == ~failed /\ r.idx < Len(r.list)

\* The statements of all the remaining items sent together, as by
\* Promise.all(list.map(...)).
SendRest(r) ==
    [r EXCEPT !.idx = @ + 1, !.pc = "query",
              !.trace = @ \o [k \in 1..(Len(r.list) - r.idx) |->
                                Event("send", r.client,
                                      StatementFor(r.list[r.idx + k], r.idx + k), Null)]]

\* The next iteration: the statement of the next item is sent and awaited.
SendNext(r) ==
    Log([r EXCEPT !.idx = @ + 1, !.pc = "query"],
        Event("send", r.client, StatementFor(r.list[r.idx + 1], r.idx + 1), Null))

\* After the loop: callback.apply(null, [null].concat(results)) | pr.resolve(results).
BatchDelivered(r, throws) ==
    [r EXCEPT !.pc = "done", !.out = DeliverSuccess(r.hasCallback, r.results, throws)]

\* catch (err) { callback(err, null) | pr.reject(err) }
BatchFailed(r, err) ==
    [r EXCEPT !.pc = "done", !.out = DeliverError(r.hasCallback, err)]

\* query(list[, callback]) -> queryArray, up to `await pool.connect()`.
queryArray(s) ==
    /\ Idle(s)
    /\ \E cb \in BOOLEAN, list \in ListsAsked :
         call' = [call EXCEPT ![s] = Connecting("array", cb, list)]
    /\ UNCHANGED <<pool, queue, tx, txLog, callers, data, built, sent, args, flat>>

\* pool.connect() resolves: the loop starts; an empty list goes straight to the
\* delivery and the finally block.
queryArrayConnected(s) ==
    /\ Awaiting(s, "array", "connect")
    /\ \E c \in Conns \ pool, throws \in CallbackMayThrow :
         LET r == Log([call[s] EXCEPT !.client = c],
                      Event("acquire", c, NoStmt, Null))
         IN  IF ContinuesAfter(r, FALSE)
             THEN /\ call' = [call EXCEPT ![s] = SendNext(r)]
                  /\ pool' = Checkout(c)
                  /\ queue' = [queue EXCEPT ![c] = Append(@, s)]
             ELSE /\ call' = [call EXCEPT ![s] = Finally(BatchDelivered(r, throws))]
                  /\ pool' = IF FinallyReleases(c) THEN Release(c) ELSE Checkout(c)
                  /\ queue' = queue
    /\ UNCHANGED <<tx, txLog, callers, data, built, sent, args, flat>>

\* pool.connect() rejects.
queryArrayConnectFailed(s) ==
    /\ Awaiting(s, "array", "connect")
    /\ call' = [call EXCEPT ![s] = Finally(BatchFailed(call[s], ConnectionError))]
    /\ UNCHANGED <<pool, queue, tx, txLog, callers, data, built, sent, args, flat>>

\* The awaited client.query of task idx resolves (failed = FALSE, with rows) or
\* rejects (failed = TRUE); pooled tells queryArray from transactionQueryArray,
\* which has no finally block.
BatchAnswered(s, kind, pooled, failed) ==
    /\ Awaiting(s, kind, "query")
    /\ Answers(s)
    /\ \E rows \in RowsAnswered(call[s].idx), throws \in CallbackMayThrow :
         LET c == call[s].client
             stmt == StatementFor(call[s].list[call[s].idx], call[s].idx)
             r == IF failed
                  THEN Log(call[s], Event("err", c, stmt, Null))
                  ELSE Log([call[s] EXCEPT !.results = PushResult(@, rows)],
                           Event("ok", c, stmt, rows))
             end == IF failed THEN BatchFailed(r, StatementError(r.idx))
                    ELSE BatchDelivered(r, throws)
         IN  IF ContinuesAfter(r, failed)
             THEN /\ call' = [call EXCEPT ![s] = SendNext(r)]
                  /\ queue' = [queue EXCEPT ![c] = Append(Tail(@), s)]
                  /\ pool' = pool
             ELSE /\ call' = [call EXCEPT ![s] = IF pooled THEN Finally(end) ELSE end]
                  /\ queue' = [queue EXCEPT ![c] = Tail(@)]
                  /\ pool' = IF pooled THEN PoolAfterFinally(end) ELSE pool
    /\ UNCHANGED <<tx, txLog, callers, data, built, sent, args, flat>>

queryArrayResult(s) == BatchAnswered(s, "array", TRUE, FALSE)
queryArrayError(s) == BatchAnswered(s, "array", TRUE, TRUE)

\* ------------------------------------------------------------------ transactions
\* newTransaction declares `let client` inside its try block; the catch block,
\* which reads `client`, is outside that block's scope.
CatchSeesClient == FALSE

\* getTransactionObject(client): { isActive: true, client: client }.
getTransactionObject(c) == [made |-> TRUE, isActive |-> TRUE, client |-> c]

\* catch (err) { if (client) { client.release(); } callback(err, null) |
\* pr.reject(err) }.  Reading a name that is not in scope throws a
\* ReferenceError out of the catch block: nothing after it runs.
newTransactionCatch(r, err) ==
    IF CatchSeesClient
    THEN LET released == IF r.client # NoConn
                         THEN Log(r, Event("release", r.client, NoStmt, Null))
                         ELSE r
         IN  [released EXCEPT !.pc = "done",
                              !.out = @ \o DeliverError(r.hasCallback, err)]
    ELSE [r EXCEPT !.pc = "done", !.uncaught = ReferenceError]

PoolAfterCatch(r) ==
    IF CatchSeesClient /\ r.client # NoConn THEN Release(r.client) ELSE pool

\* beginTransaction([callback]) / transaction([callback]), up to
\* `await pool.connect()`.  The model follows one transaction object.
newTransaction(s) ==
    /\ Idle(s)
    /\ ~tx.made
    /\ \A t \in Slots : call[t].kind # "begin"
    /\ \E cb \in BOOLEAN :
         call' = [call EXCEPT ![s] = Connecting("begin", cb, <<>>)]
    /\ UNCHANGED <<pool, queue, tx, txLog, callers, data, built, sent, args, flat>>

\* pool.connect() resolves: BEGIN is sent and awaited.
newTransactionConnected(s) ==
    /\ Awaiting(s, "begin", "connect")
    /\ \E c \in Conns \ pool :
         /\ pool' = Checkout(c)
         /\ queue' = [queue EXCEPT ![c] = Append(@, s)]
         /\ call' = [call EXCEPT ![s] =
                Log(Log([call[s] EXCEPT !.client = c, !.pc = "query"],
                        Event("acquire", c, NoStmt, Null)),
                    Event("send", c, Stmt("BEGIN", 0), Null))]
    /\ UNCHANGED <<tx, txLog, callers, data, built, sent, args, flat>>

\* pool.connect() rejects: the catch block.
newTransactionConnectFailed(s) ==
    /\ Awaiting(s, "begin", "connect")
    /\ call' = [call EXCEPT ![s] = newTransactionCatch(call[s], ConnectionError)]
    /\ pool' = PoolAfterCatch(call[s])
    /\ UNCHANGED <<queue, tx, txLog, callers, data, built, sent, args, flat>>

\* BEGIN resolves: the transaction object is made and handed to the caller; a
\* callback that throws lands in the catch block.
newTransactionBegun(s) ==
    /\ Awaiting(s, "begin", "query")
    /\ Answers(s)
    /\ \E throws \in CallbackMayThrow :
         LET c == call[s].client
             r == Log(call[s], Event("ok", c, Stmt("BEGIN", 0), Null))
             given == [r EXCEPT !.pc = "done",
                          !.out = IF r.hasCallback
                                  THEN <<Delivery("callback", NoError, <<Handle>>)>>
                                  ELSE <<Delivery("promise", NoError, <<Handle>>)>>]
         IN  IF r.hasCallback /\ throws
             THEN /\ call' = [call EXCEPT ![s] = newTransactionCatch(given, CallbackError)]
                  /\ pool' = PoolAfterCatch(given)
             ELSE /\ call' = [call EXCEPT ![s] = given]
                  /\ pool' = pool
    /\ tx' = getTransactionObject(call[s].client)
    /\ queue' = [queue EXCEPT ![call[s].client] = Tail(@)]
    /\ UNCHANGED <<txLog, callers, data, built, sent, args, flat>>

\* BEGIN rejects: the catch block.
newTransactionBeginFailed(s) ==
    /\ Awaiting(s, "begin", "query")
    /\ Answers(s)
    /\ LET r == Log(call[s], Event("err", call[s].client, Stmt("BEGIN", 0), Null))
       IN  /\ call' = [call EXCEPT ![s] = newTransactionCatch(r, StatementError(0))]
           /\ pool' = PoolAfterCatch(r)
    /\ queue' = [queue EXCEPT ![call[s].client] = Tail(@)]
    /\ UNCHANGED <<tx, txLog, callers, data, built, sent, args, flat>>

\* pg-pool's client.release() throws when the client is not checked out.
ReleaseThrows(c) == c \notin pool

\* client.release() and isActive = false done by commit / rollback itself,
\* before the statement is sent.
EndTransactionReleasesFirst(s, cmd, verb) ==
    /\ Idle(s)
    /\ tx.made
    /\ txLog.endCalls < MaxEndCalls
    /\ \E cb \in BOOLEAN :
         call' = [call EXCEPT ![s] =
                    Log(Log([IdleCall EXCEPT !.kind = cmd, !.pc = "query",
                                             !.hasCallback = cb, !.client = tx.client,
                                             !.afterEnd = txLog.ended],
                            Event("release", tx.client, NoStmt, Null)),
                        Event("send", tx.client, Stmt(verb, 0), Null))]
    /\ queue' = [queue EXCEPT ![tx.client] = Append(@, s)]
    /\ pool' = Release(tx.client)
    /\ tx' = [tx EXCEPT !.isActive = FALSE]
    /\ txLog' = [txLog EXCEPT !.endCalls = @ + 1, !.releaseCalls = @ + 1]
    /\ UNCHANGED <<callers, data, built, sent, args, flat>>

\* transaction.commit([callback]) / transaction.rollback([callback]):
\* client.query(COMMIT | ROLLBACK, function (err) {...}) is sent at once.
EndTransaction(s, cmd, verb) ==
    /\ Idle(s)
    /\ tx.made
    /\ txLog.endCalls < MaxEndCalls
    /\ \E cb \in BOOLEAN :
         call' = [call EXCEPT ![s] =
                    Log([IdleCall EXCEPT !.kind = cmd, !.pc = "query",
                                         !.hasCallback = cb, !.client = tx.client,
                                         !.afterEnd = txLog.ended],
                        Event("send", tx.client, Stmt(verb, 0), Null))]
    /\ queue' = [queue EXCEPT ![tx.client] = Append(@, s)]
    /\ txLog' = [txLog EXCEPT !.endCalls = @ + 1]
    /\ UNCHANGED <<pool, tx, callers, data, built, sent, args, flat>>

\* The callback of that client.query: client.release(); transaction.isActive =
\* false; then the error or the success is handed to the caller.
EndAnswered(s, cmd, verb, failed) ==
    /\ Awaiting(s, cmd, "query")
    /\ Answers(s)
    /\ LET c == call[s].client
           r == Log(Log(call[s], Event(IF failed THEN "err" ELSE "ok", c, Stmt(verb, 0), Null)),
                    Event("release", c, NoStmt, Null))
       IN  IF ReleaseThrows(c)
           THEN /\ call' = [call EXCEPT ![s] =
                              [r EXCEPT !.pc = "done", !.uncaught = ReleaseError]]
                /\ txLog' = [txLog EXCEPT !.releaseCalls = @ + 1]
                /\ UNCHANGED <<pool, tx>>
           ELSE /\ call' = [call EXCEPT ![s] =
                              [r EXCEPT !.pc = "done",
                                  !.out = IF failed
                                          THEN DeliverError(r.hasCallback, StatementError(0))
                                          ELSE IF r.hasCallback
                                               THEN <<Delivery("callback", NoError, <<>>)>>
                                               ELSE <<Delivery("promise", NoError, <<>>)>>]]
                /\ pool' = Release(c)
                /\ tx' = [tx EXCEPT !.isActive = FALSE]
                /\ txLog' = [txLog EXCEPT !.releaseCalls = @ + 1, !.released = @ + 1,
                                          !.ended = TRUE]
    /\ queue' = [queue EXCEPT ![call[s].client] = Tail(@)]
    /\ UNCHANGED <<callers, data, built, sent, args, flat>>

commit(s) == EndTransaction(s, "commit", "COMMIT")
commitResult(s) == EndAnswered(s, "commit", "COMMIT", FALSE)
commitError(s) == EndAnswered(s, "commit", "COMMIT", TRUE)
rollback(s) == EndTransaction(s, "rollback", "ROLLBACK")
rollbackResult(s) == EndAnswered(s, "rollback", "ROLLBACK", FALSE)
rollbackError(s) == EndAnswered(s, "rollback", "ROLLBACK", TRUE)

\* transaction.query(sql, ...values[, callback]) -> transactionQueryStandard and
\* transaction.query(obj[, callback]) -> transactionQueryObject: the statement
\* is sent on the transaction's client at once.
TransactionSingle(s, kind, objs) ==
    /\ Idle(s)
    /\ tx.made
    /\ \E cb \in BOOLEAN, list \in objs :
         LET r == [IdleCall EXCEPT !.kind = kind, !.pc = "query", !.hasCallback = cb,
                                   !.list = list, !.client = tx.client,
                                   !.afterEnd = txLog.ended]
         IN  call' = [call EXCEPT ![s] =
                        Log(r, Event("send", tx.client, SingleStatement(r), Null))]
    /\ queue' = [queue EXCEPT ![tx.client] = Append(@, s)]
    /\ UNCHANGED <<pool, tx, txLog, callers, data, built, sent, args, flat>>

transactionQueryStandard(s) == TransactionSingle(s, "txStandard", {<<>>})
transactionQueryStandardResult(s) == SingleResult(s, "txStandard", FALSE)
\* A transactionQueryStandard with the finally block of queryStandard.
transactionQueryStandardErrorReleases(s) == SingleError(s, "txStandard", TRUE)
transactionQueryStandardError(s) == SingleError(s, "txStandard", FALSE)

transactionQueryObject(s) == TransactionSingle(s, "txObject", {<<d>> : d \in Descriptors})
transactionQueryObjectResult(s) == SingleResult(s, "txObject", FALSE)
transactionQueryObjectError(s) == SingleError(s, "txObject", FALSE)

\* transaction.query(list[, callback]) -> transactionQueryArray: the loop starts
\* at once on the transaction's client; an empty list is delivered at once.
transactionQueryArray(s) ==
    /\ Idle(s)
    /\ tx.made
    /\ \E cb \in BOOLEAN, list \in ListsAsked, throws \in CallbackMayThrow :
         LET r == [IdleCall EXCEPT !.kind = "txArray", !.hasCallback = cb,
                                   !.list = list, !.client = tx.client,
                                   !.afterEnd = txLog.ended]
         IN  IF ContinuesAfter(r, FALSE)
             THEN /\ call' = [call EXCEPT ![s] = SendNext(r)]
                  /\ queue' = [queue EXCEPT ![tx.client] = Append(@, s)]
             ELSE /\ call' = [call EXCEPT ![s] = BatchDelivered(r, throws)]
                  /\ queue' = queue
    /\ UNCHANGED <<pool, tx, txLog, callers, data, built, sent, args, flat>>

\* A transactionQueryArray with the finally block of queryArray.
transactionQueryArrayResultReleases(s) == BatchAnswered(s, "txArray", TRUE, FALSE)
transactionQueryArrayResult(s) == BatchAnswered(s, "txArray", FALSE, FALSE)
transactionQueryArrayError(s) == BatchAnswered(s, "txArray", FALSE, TRUE)

\* ------------------------------------------------------------------ queryOne
OneKinds == {"oneStandard", "oneObject"}

\* An onResult that rejects a result without rows.
onResultNotFoundFails(hasCallback, rows, throws) ==
    IF rows.shape = "undefined" \/ rows.n = 0
    THEN DeliverError(hasCallback, TypeError)
    ELSE DeliverSuccess(hasCallback, <<ElementOf(rows, 0)>>, throws)

\* onResult(null, rows), called from the try block of queryStandard /
\* queryObject: callback(null, rows[0]) | pr.resolve(rows[0]).  Whatever is
\* thrown in it (rows[0] of undefined, or by the callback) lands in that try's
\* catch block, which calls onResult(err, null): callback(err, null) |
\* pr.reject(err).
onResult(hasCallback, rows, throws) ==
    IF rows.shape = "undefined"
    THEN DeliverError(hasCallback, TypeError)
    ELSE DeliverSuccess(hasCallback, <<ElementOf(rows, 0)>>, throws)

\* queryOne(sql, ...values[, callback]) and queryOne(obj[, callback]): onResult
\* takes the place of the callback and query() is called, up to its `await
\* pool.connect()`.
queryOne(s) ==
    /\ Idle(s)
    /\ \/ \E cb \in BOOLEAN :
            call' = [call EXCEPT ![s] = Connecting("oneStandard", cb, <<>>)]
       \/ \E cb \in BOOLEAN, obj \in Descriptors :
            call' = [call EXCEPT ![s] = Connecting("oneObject", cb, <<obj>>)]
    /\ UNCHANGED <<pool, queue, tx, txLog, callers, data, built, sent, args, flat>>

queryOneConnected(s) == \E kind \in OneKinds : SingleConnected(s, kind)

\* onResult(err, null) hands err on as it is.
queryOneConnectFailed(s) == \E kind \in OneKinds : SingleConnectFailed(s, kind)
queryOneError(s) == \E kind \in OneKinds : SingleError(s, kind, TRUE)

\* client.query resolves: onResult(null, result.rows), then the finally block.
queryOneResult(s) ==
    /\ call[s].kind \in OneKinds
    /\ Awaiting(s, call[s].kind, "query")
    /\ Answers(s)
    /\ \E rows \in RowsAnswered(0), throws \in CallbackMayThrow :
         LET r == Log([call[s] EXCEPT !.pc = "done",
                          !.out = onResult(call[s].hasCallback, rows, throws)],
                      Event("ok", call[s].client, SingleStatement(call[s]), rows))
         IN  /\ call' = [call EXCEPT ![s] = Finally(r)]
             /\ pool' = PoolAfterFinally(r)
    /\ queue' = [queue EXCEPT ![call[s].client] = Tail(@)]
    /\ UNCHANGED <<tx, txLog, callers, data, built, sent, args, flat>>

\* ------------------------------------------------------------------ invalid query type
\* A pooled call made with that argument: it would wait for pool.connect().
InvalidQueryViaPool(kind, cb) == Connecting(kind, cb, <<>>)

\* The else branch of query() and of transaction.query(): q is neither a string,
\* an object nor an array.  callback(err, null) | pr.reject(err) with err =
\* { error: 'Invalid query type' } runs before the function returns.
InvalidQuery(kind, cb) ==
    [IdleCall EXCEPT !.kind = kind, !.pc = "done", !.hasCallback = cb,
                     !.out = DeliverError(cb, InvalidQueryType),
                     !.afterEnd = txLog.ended, !.before = Cardinality(pool)]

\* query(q, ...) with such a q.
queryInvalid(s) ==
    /\ Idle(s)
    /\ \E cb \in BOOLEAN :
         call' = [call EXCEPT ![s] = InvalidQuery("invalid", cb)]
    /\ UNCHANGED <<pool, queue, tx, txLog, callers, data, built, sent, args, flat>>

\* transaction.query(q, ...) with such a q.
transactionQueryInvalid(s) ==
    /\ Idle(s)
    /\ tx.made
    /\ \E cb \in BOOLEAN :
         call' = [call EXCEPT ![s] = InvalidQuery("txInvalid", cb)]
    /\ UNCHANGED <<pool, queue, tx, txLog, callers, data, built, sent, args, flat>>

\* ------------------------------------------------------------------ query builders
\* Values of a descriptor's fields, as far as the builders tell them apart:
\* what isObject() says of the value and how many keys Object.keys() finds.
\* For flatArray: typeof, truthiness, the `length` member (NoLength when it
\* is undefined) and what flatArray.apply(null, value) reads as arguments.
NoLength == 0 - 1
Value(is, obj, keys) ==
    [is |-> is, isObject |-> obj, keys |-> keys,
     typeof |-> IF obj THEN "object" ELSE "string", truthy |-> TRUE,
     length |-> NoLength, items |-> <<>>]
Auto == [Value("'auto'", FALSE, 0) EXCEPT !.length = 4]
Text == [Value("'Mister'", FALSE, 0) EXCEPT !.length = 6]
NullValue == [Value("null", FALSE, 0) EXCEPT !.typeof = "object", !.truthy = FALSE]
UndefinedValue == [Value("undefined", FALSE, 0) EXCEPT !.typeof = "undefined",
                                                       !.truthy = FALSE]
EmptyObject == Value("{}", TRUE, 0)
JsonObject == Value("{ genre: 'rock' }", TRUE, 1)
Id == [Value("38", FALSE, 0) EXCEPT !.typeof = "number"]

\* An array of the given items.
Array(items) ==
    [Value("array", FALSE, Len(items)) EXCEPT !.typeof = "object",
                                             !.length = Len(items), !.items = items]
ArrayValue == Array(<<Id, Text>>)
NestedArray == Array(<<Id, Array(<<Text>>)>>)

\* A plain object that happens to have a member named length, such as
\* { length: 2, width: 1 }: read as arguments it gives `length` undefineds.
LengthObject ==
    [Value("{ length: 2, width: 1 }", TRUE, 2) EXCEPT
        !.length = 2, !.items = <<UndefinedValue, UndefinedValue>>]

Table == "artists"
FieldNames == {"first_name", "last_name", "sort_order", "meta"}
FieldValues == {Auto, Text, NullValue, EmptyObject, JsonObject, ArrayValue}
WhereNames == {"id", "lang"}
ReturnValues == {"", "*"}

\* Object.keys(): the members of an object in insertion order, no key twice.
RECURSIVE Members(_, _, _)
Members(names, values, n) ==
    IF n = 0 THEN {<<>>}
    ELSE LET shorter == Members(names, values, n - 1)
             unused(m) == names \ {m[i].name : i \in 1..Len(m)}
         IN  shorter \cup UNION {{Append(m, [name |-> k, val |-> v]) :
                                     k \in unused(m), v \in values} :
                                 m \in {x \in shorter : Len(x) = n - 1}}

\* A statement descriptor: { table, fields, where?, returnValue? }.
StatementDescriptor(f, h, w, rv) ==
    [table |-> Table, fields |-> f, hasWhere |-> h, where |-> w, returnValue |-> rv]

NoData == [table |-> "", fields |-> <<>>, hasWhere |-> FALSE, where |-> <<>>,
           returnValue |-> ""]
NoQuery == [sql |-> <<>>, values |-> <<>>]

\* What client.query was called with, per function calling it; nothing yet.
NoSent == [called |-> FALSE, sql |-> <<>>, values |-> <<>>]
Senders == {"queryObject", "queryStandard"}
NothingSent == [f \in Senders |-> NoSent]

\* flatArray has not returned yet.
NoFlat == [returned |-> FALSE, value |-> <<>>]

\* The sql text is kept as the sequence of the pieces appended to it.
\* '$' + pIndex
Placeholder(n) == "$" \o ToString(n)

\* '(SELECT COALESCE(MAX(sort_order), 0) + 1 FROM ' + data.table + ')'
Subquery(table) == "(SELECT COALESCE(MAX(sort_order), 0) + 1 FROM " \o table \o ")"

\* isLastField ? ' ' : ', '
ListSeparator(isLastField) == IF isLastField THEN " " ELSE ", "

\* if (data.returnValue) { sql += ' RETURNING ' + data.returnValue; }
Returning(d) == IF d.returnValue # "" THEN <<" RETURNING " \o d.returnValue>> ELSE <<>>
\* buildInsertQuery, first forEach: sql += field + (isLastField ? ' ' : ', ').
\* i counts the fields from 1.
RECURSIVE InsertColumns(_, _)
InsertColumns(fields, i) ==
    IF i > Len(fields) THEN <<>>
    ELSE <<fields[i].name, ListSeparator(i = Len(fields))>> \o InsertColumns(fields, i + 1)

\* A placeholder numbered by the field's position.
FieldIndexPlaceholder(pIndex, i) == i

\* pIndex += 1
NextPlaceholder(pIndex, i) == pIndex + 1

\* field === 'sort_order' && val === 'auto'
IsAutoSortOrder(f) == f.name = "sort_order" /\ f.val = Auto

\* buildInsertQuery, second forEach: the subquery for sort_order: 'auto', else
\* the next placeholder and values.push(val); then the separator.  pIndex is
\* the last placeholder number used so far.
RECURSIVE InsertValues(_, _, _)
InsertValues(d, i, pIndex) ==
    IF i > Len(d.fields) THEN NoQuery
    ELSE LET f == d.fields[i]
             n == NextPlaceholder(pIndex, i)
             rest == InsertValues(d, i + 1, IF IsAutoSortOrder(f) THEN pIndex ELSE n)
             sep == ListSeparator(i = Len(d.fields))
         IN  IF IsAutoSortOrder(f)
             THEN [sql |-> <<Subquery(d.table), sep>> \o rest.sql, values |-> rest.values]
             ELSE [sql |-> <<Placeholder(n), sep>> \o rest.sql,
                   values |-> <<f.val>> \o rest.values]

buildInsertQuery(d) ==
    LET vals == InsertValues(d, 1, 0)
    IN  [sql |-> <<"INSERT INTO " \o d.table \o " ( ">> \o InsertColumns(d.fields, 1)
                 \o <<") VALUES ( ">> \o vals.sql \o <<")">> \o Returning(d),
         values |-> vals.values]

\* Every plain object is concatenated, the empty one too.
ConcatenatesAnyObject(val) == isObject(val)

\* isObject(val) && Object.keys(val).length
Concatenates(val) == isObject(val) /\ val.keys # 0

\* buildUpdateQuery, first forEach: field = field || $pIndex for JSON data,
\* field = $pIndex otherwise, with pIndex = i + 1 counted from 0; the
\* separator; values.push(val).  Here i counts from 1.
RECURSIVE UpdateFields(_, _)
UpdateFields(d, i) ==
    IF i > Len(d.fields) THEN NoQuery
    ELSE LET f == d.fields[i]
             rest == UpdateFields(d, i + 1)
             lhs == IF Concatenates(f.val)
                    THEN f.name \o " = " \o f.name \o " || "
                    ELSE f.name \o " = "
         IN  [sql |-> <<lhs, Placeholder(i), ListSeparator(i = Len(d.fields))>> \o rest.sql,
              values |-> <<f.val>> \o rest.values]

\* Where placeholders numbered from 1 again.
WherePlaceholderFromOne(n, i) == i

\* pIndex = fields.length + i + 1, i counted from 0; here i counts from 1.
WherePlaceholder(n, i) == n + i

\* buildUpdateQuery, second forEach: field = $pIndex, then ' ' after the last
\* key and ' AND ' after the others; values.push(data.where[field]).
RECURSIVE UpdateWhere(_, _)
UpdateWhere(d, i) ==
    IF i > Len(d.where) THEN NoQuery
    ELSE LET w == d.where[i]
             rest == UpdateWhere(d, i + 1)
         IN  [sql |-> <<w.name \o " = ", Placeholder(WherePlaceholder(Len(d.fields), i)),
                        IF i = Len(d.where) THEN " " ELSE " AND ">> \o rest.sql,
              values |-> <<w.val>> \o rest.values]

buildUpdateQuery(d) ==
    LET set == UpdateFields(d, 1)
        where == UpdateWhere(d, 1)
    IN  [sql |-> <<"UPDATE " \o d.table \o " SET ">> \o set.sql \o <<" WHERE ">>
                 \o where.sql \o Returning(d),
         values |-> set.values \o where.values]

\* An array-like test without the typeof check.
isArrayLikeByLength(arg) == arg.truthy /\ arg.length # NoLength

\* isArrayLike = arg && typeof arg === 'object' && arg.length !== undefined
isArrayLike(arg) == arg.truthy /\ arg.typeof = "object" /\ arg.length # NoLength

\* flatArray: for each argument, concat(flatArray.apply(null, arg)) when it is
\* array-like, push(arg) otherwise.
RECURSIVE flatArray(_)
flatArray(arguments) ==
    IF arguments = <<>> THEN <<>>
    ELSE LET arg == Head(arguments)
         IN  (IF isArrayLike(arg) THEN flatArray(arg.items) ELSE <<arg>>)
             \o flatArray(Tail(arguments))

\* A call of flatArray with the arguments args.
Flatten ==
    /\ ~flat.returned
    /\ flat' = [returned |-> TRUE, value |-> flatArray(args)]
    /\ UNCHANGED <<call, pool, queue, tx, txLog, callers, data, built, sent, args>>

\* obj.where ? buildUpdateQuery(obj) : buildInsertQuery(obj)
BuildQuery(obj) == IF obj.hasWhere THEN buildUpdateQuery(obj) ELSE buildInsertQuery(obj)

\* insert(data) or update(data): queryObject builds the query and calls
\* client.query(q.sql, q.values).
queryObjectSends ==
    /\ ~sent["queryObject"].called
    /\ LET q == BuildQuery(data)
       IN  sent' = [sent EXCEPT !["queryObject"] =
                        [called |-> TRUE, sql |-> q.sql, values |-> q.values]]
    /\ UNCHANGED <<call, pool, queue, tx, txLog, callers, data, built, args, flat>>

\* query(q.sql, q.values) for the built query q: queryStandard takes the rest
\* arguments [q.values] as values and calls client.query(sql, flatArray(values)),
\* where flatArray's arguments are the one array `values`.
queryStandardSends ==
    /\ ~sent["queryStandard"].called
    /\ LET q == BuildQuery(data)
           values == Array(<<Array(q.values)>>)
       IN  sent' = [sent EXCEPT !["queryStandard"] =
                        [called |-> TRUE, sql |-> q.sql,
                         values |-> flatArray(<<values>>)]]
    /\ UNCHANGED <<call, pool, queue, tx, txLog, callers, data, built, args, flat>>

\* sql += piece, over all the pieces: the string the builder returns.
RECURSIVE Join(_)
Join(pieces) == IF pieces = <<>> THEN "" ELSE Head(pieces) \o Join(Tail(pieces))

\* `obj.where ? buildUpdateQuery(obj) : buildInsertQuery(obj)`, the two branches.
BuildInsert ==
    /\ built = NoQuery
    /\ ~data.hasWhere
    /\ built' = buildInsertQuery(data)
    /\ UNCHANGED <<call, pool, queue, tx, txLog, callers, data, sent, args, flat>>

BuildUpdate ==
    /\ built = NoQuery
    /\ data.hasWhere
    /\ built' = buildUpdateQuery(data)
    /\ UNCHANGED <<call, pool, queue, tx, txLog, callers, data, sent, args, flat>>

\* ------------------------------------------------------------------ bookkeeping
\* insert(obj[, callback]) and update(obj[, callback]): queryObject.call(null,
\* obj, callback) for a plain object; anything else fails at once with
\* { error: 'Invalid parameters for insert()' }.
SemanticWrapper(s, funcName) ==
    /\ Idle(s)
    /\ \E cb \in BOOLEAN, obj \in Tasks :
         call' = [call EXCEPT ![s] =
                    IF isObject(obj)
                    THEN Connecting(funcName, cb, <<obj>>)
                    ELSE [IdleCall EXCEPT !.kind = funcName, !.pc = "done",
                                          !.hasCallback = cb,
                                          !.out = DeliverError(cb, InvalidParameters),
                                          !.before = Cardinality(pool)]]
    /\ UNCHANGED <<pool, queue, tx, txLog, callers, data, built, sent, args, flat>>

insert(s) == SemanticWrapper(s, "insert")
update(s) == SemanticWrapper(s, "update")

\* The steps of the queryObject they call.
WrapperKinds == {"insert", "update"}
wrappedQueryObjectConnected(s) == \E kind \in WrapperKinds : SingleConnected(s, kind)
wrappedQueryObjectConnectFailed(s) ==
    \E kind \in WrapperKinds : SingleConnectFailed(s, kind)
wrappedQueryObjectResult(s) == \E kind \in WrapperKinds : SingleResult(s, kind, TRUE)
wrappedQueryObjectError(s) == \E kind \in WrapperKinds : SingleError(s, kind, TRUE)

\* The caller has seen the outcome of a finished call; its slot is free again.
Retire(s) ==
    /\ call[s].pc = "done"
    /\ call' = [call EXCEPT ![s] = IdleCall]
    /\ UNCHANGED <<pool, queue, tx, txLog, callers, data, built, sent, args, flat>>

Init ==
    /\ call = [s \in Slots |-> IdleCall]
    /\ pool = {}
    /\ queue = [c \in Conns |-> <<>>]
    /\ tx = NoTransaction
    /\ txLog = EmptyTxLog
    /\ callers = "one"
    /\ data = NoData
    /\ built = NoQuery
    /\ sent = NothingSent
    /\ args = <<>>
    /\ flat = NoFlat

\* The same, with callers that overlap.
InitConcurrent ==
    /\ call = [s \in Slots |-> IdleCall]
    /\ pool = {}
    /\ queue = [c \in Conns |-> <<>>]
    /\ tx = NoTransaction
    /\ txLog = EmptyTxLog
    /\ callers = "many"
    /\ data = NoData
    /\ built = NoQuery
    /\ sent = NothingSent
    /\ args = <<>>
    /\ flat = NoFlat

Next ==
    \E s \in Slots :
        \/ queryStandard(s)
        \/ queryStandardConnected(s)
        \/ queryStandardConnectFailed(s)
        \/ queryStandardResult(s)
        \/ queryStandardError(s)
        \/ queryObject(s)
        \/ queryObjectConnected(s)
        \/ queryObjectConnectFailed(s)
        \/ queryObjectResult(s)
        \/ queryObjectError(s)
        \/ queryArray(s)
        \/ queryArrayConnected(s)
        \/ queryArrayConnectFailed(s)
        \/ queryArrayResult(s)
        \/ queryArrayError(s)
        \/ newTransaction(s)
        \/ newTransactionConnected(s)
        \/ newTransactionConnectFailed(s)
        \/ newTransactionBegun(s)
        \/ newTransactionBeginFailed(s)
        \/ commit(s)
        \/ commitResult(s)
        \/ commitError(s)
        \/ rollback(s)
        \/ rollbackResult(s)
        \/ rollbackError(s)
        \/ transactionQueryStandard(s)
        \/ transactionQueryStandardResult(s)
        \/ transactionQueryStandardError(s)
        \/ transactionQueryObject(s)
        \/ transactionQueryObjectResult(s)
        \/ transactionQueryObjectError(s)
        \/ transactionQueryArray(s)
        \/ transactionQueryArrayResult(s)
        \/ transactionQueryArrayError(s)
        \/ queryOne(s)
        \/ queryOneConnected(s)
        \/ queryOneConnectFailed(s)
        \/ queryOneResult(s)
        \/ queryOneError(s)
        \/ queryInvalid(s)
        \/ transactionQueryInvalid(s)
        \/ Retire(s)

\* One caller drives the API.
Spec == Init /\ [][Next]_vars

\* Several callers at once.
Concurrent == InitConcurrent /\ [][Next]_vars

\* The query builders, applied to every statement descriptor.
InitBuilder ==
    /\ call = [s \in Slots |-> IdleCall]
    /\ pool = {}
    /\ queue = [c \in Conns |-> <<>>]
    /\ tx = NoTransaction
    /\ txLog = EmptyTxLog
    /\ callers = "one"
    /\ \E f \in Members(FieldNames, FieldValues, MaxFields), h \in BOOLEAN,
          w \in Members(WhereNames, {Id}, MaxWhere), rv \in ReturnValues :
           /\ h \/ w = <<>>
           /\ data = StatementDescriptor(f, h, w, rv)
    /\ built = NoQuery
    /\ sent = NothingSent
    /\ args = <<>>
    /\ flat = NoFlat

BuilderNext == BuildInsert \/ BuildUpdate

Builder == InitBuilder /\ [][BuilderNext]_vars

\* A caller that hands over descriptors through every entry point taking one:
\* insert, update, query, a batch, transaction.query.
ByDescriptorNext ==
    \E s \in Slots :
        \/ insert(s)
        \/ update(s)
        \/ wrappedQueryObjectConnected(s)
        \/ wrappedQueryObjectConnectFailed(s)
        \/ wrappedQueryObjectResult(s)
        \/ wrappedQueryObjectError(s)
        \/ queryObject(s)
        \/ queryObjectConnected(s)
        \/ queryObjectConnectFailed(s)
        \/ queryObjectResult(s)
        \/ queryObjectError(s)
        \/ queryArray(s)
        \/ queryArrayConnected(s)
        \/ queryArrayConnectFailed(s)
        \/ queryArrayResult(s)
        \/ queryArrayError(s)
        \/ newTransaction(s)
        \/ newTransactionConnected(s)
        \/ newTransactionConnectFailed(s)
        \/ newTransactionBegun(s)
        \/ newTransactionBeginFailed(s)
        \/ transactionQueryObject(s)
        \/ transactionQueryObjectResult(s)
        \/ transactionQueryObjectError(s)
        \/ transactionQueryArray(s)
        \/ transactionQueryArrayResult(s)
        \/ transactionQueryArrayError(s)
        \/ Retire(s)

ByDescriptor == Init /\ [][ByDescriptorNext]_vars

\* The values a field is bound to when comparing what the entry points send.
BindValues == {Text, ArrayValue, NestedArray}

\* insert(data) / update(data) beside query(q.sql, q.values) of the same data.
InitSending ==
    /\ call = [s \in Slots |-> IdleCall]
    /\ pool = {}
    /\ queue = [c \in Conns |-> <<>>]
    /\ tx = NoTransaction
    /\ txLog = EmptyTxLog
    /\ callers = "one"
    /\ \E f \in Members(FieldNames, BindValues, MaxFields), h \in BOOLEAN,
          w \in Members(WhereNames, {Id}, MaxWhere), rv \in ReturnValues :
           /\ h \/ w = <<>>
           /\ data = StatementDescriptor(f, h, w, rv)
    /\ built = NoQuery
    /\ sent = NothingSent
    /\ args = <<>>
    /\ flat = NoFlat

SendingNext == queryObjectSends \/ queryStandardSends

Sending == InitSending /\ [][SendingNext]_vars

\* The values flatArray meets that are not arrays: numbers and strings, and
\* these with plain objects.
Primitives == {Id, Text}
Scalars == Primitives \cup {JsonObject, LengthObject}

\* The argument lists of exactly n values in all, nested arrays counted with
\* their items, over the given scalars; the values of exactly n values in all.
RECURSIVE Forests(_, _), Trees(_, _)
Trees(n, scalars) ==
    (IF n = 1 THEN scalars ELSE {}) \cup {Array(f) : f \in Forests(n - 1, scalars)}
Forests(n, scalars) ==
    IF n = 0 THEN {<<>>}
    ELSE UNION {{<<t>> \o f : t \in Trees(k, scalars), f \in Forests(n - k, scalars)} :
                k \in 1..n}

InitFlattening ==
    /\ call = [s \in Slots |-> IdleCall]
    /\ pool = {}
    /\ queue = [c \in Conns |-> <<>>]
    /\ tx = NoTransaction
    /\ txLog = EmptyTxLog
    /\ callers = "one"
    /\ data = NoData
    /\ built = NoQuery
    /\ sent = NothingSent
    /\ \/ \E n \in 0..MaxNodes : args \in Forests(n, Primitives)
       \/ \E n \in 0..MaxMixedNodes : args \in Forests(n, Scalars)
    /\ flat = NoFlat

FlatteningNext == Flatten

Flattening == InitFlattening /\ [][FlatteningNext]_vars

\* ------------------------------------------------------------------ properties
Done(s, kinds) == call[s].pc = "done" /\ call[s].kind \in kinds

At(r, ev) == {i \in 1..Len(r.trace) : r.trace[i].ev = ev}

Has(r, ev) == At(r, ev) # {}

SingleKinds == {"standard", "object"}
BatchKinds == {"array", "txArray"}
InvalidKinds == {"invalid", "txInvalid"}
TxQueryKinds == {"txStandard", "txObject", "txArray"}
EndKinds == {"commit", "rollback"}
PooledKinds == SingleKinds \cup OneKinds \cup {"array"}

\* The rows the driver answered task i of a batch with.
AnswerOf(r, i) ==
    LET at == {j \in At(r, "ok") : r.trace[j].stmt = StatementFor(r.list[i], i)}
    IN  IF at = {} THEN Null ELSE r.trace[CHOOSE j \in at : TRUE].rows

\* The task of a batch whose statement failed (0 when none did).
FailedTask(r) ==
    IF Has(r, "err") THEN r.trace[CHOOSE j \in At(r, "err") : TRUE].stmt.task ELSE 0

\* A batch that ran to its end: it got its connection and no statement failed.
Completed(r) == ~Has(r, "err") /\ (r.kind = "array" => Has(r, "acquire"))

\* One pool.connect(); when it resolved, one client.release(), of the connection
\* it gave, as the last thing the call does; when it rejected, no release.
ReleasesWhatItAcquired(r) ==
    /\ Count(r.trace, "connect") = 1
    /\ Count(r.trace, "acquire") <= 1
    /\ Count(r.trace, "release") = Count(r.trace, "acquire")
    /\ Has(r, "acquire") =>
          /\ r.client # NoConn
          /\ r.trace[Len(r.trace)] = Event("release", r.client, NoStmt, Null)
          /\ \A i \in At(r, "acquire") : r.trace[i].conn = r.client
    /\ ~Has(r, "acquire") => r.client = NoConn /\ ~Has(r, "send")

\* C1: for one transaction handle and any sequence of commit() and rollback()
\* calls, the handle's connection goes back to the pool at most once, and
\* exactly once when a commit or rollback has completed.
C1_HandleReleasedOnce ==
    /\ txLog.released <= 1
    /\ txLog.ended => txLog.released = 1

\* C2: a call of transaction.query(), commit() or rollback() made after the
\* handle has ended sends no statement.
C2_EndedHandleSendsNothing ==
    \A s \in Slots : call[s].afterEnd => ~Has(call[s], "send")

\* C3: when BEGIN fails, the caller of beginTransaction() receives that error
\* and no transaction handle, and no handle becomes active.
C3_BeginErrorReachesCaller ==
    \A s \in Slots :
        Done(s, {"begin"}) /\ Has(call[s], "err") =>
            /\ call[s].out = DeliverError(call[s].hasCallback, StatementError(0))
            /\ ~tx.made

\* C4: when beginTransaction() has acquired a connection and BEGIN fails, the
\* connection is released exactly once and the number of checked-out
\* connections is what it was before the call.
C4_BeginErrorReleases ==
    \A s \in Slots :
        Done(s, {"begin"}) /\ Has(call[s], "err") =>
            /\ Count(call[s].trace, "release") = 1
            /\ Cardinality(pool) = call[s].before

\* C5: a single-statement call whose checkout succeeds releases the connection
\* exactly once, whether the statement succeeds or fails; one whose checkout
\* fails releases nothing; afterwards as many connections are checked out as
\* before the call.
C5_SingleStatementReleasesOnce ==
    \A s \in Slots :
        Done(s, SingleKinds) =>
            /\ ReleasesWhatItAcquired(call[s])
            /\ call[s].client \notin pool
            /\ Cardinality(pool) = call[s].before

C5_Witness ==
    \E s \in Slots :
        /\ Done(s, SingleKinds)
        /\ Has(call[s], "err")
        /\ Count(call[s].trace, "release") = 1
        /\ call[s].before > 0

\* C6: a batch call, whatever the number of tasks and whichever task fails,
\* checks out one connection for the whole batch, sends every task on it and
\* releases it exactly once, after the last task it ran.
C6_BatchOneConnection ==
    \A s \in Slots :
        Done(s, {"array"}) =>
            /\ ReleasesWhatItAcquired(call[s])
            /\ \A i \in At(call[s], "send") : call[s].trace[i].conn = call[s].client

C6_Witness ==
    \E s \in Slots :
        /\ Done(s, {"array"})
        /\ Len(call[s].list) = MaxTasks
        /\ FailedTask(call[s]) = MaxTasks
        /\ Count(call[s].trace, "send") = MaxTasks
        /\ Count(call[s].trace, "release") = 1

\* C7: in a batch, once the statement of a task has failed, no statement of a
\* later task is sent.
C7_NoTaskAfterFailure ==
    \A s \in Slots :
        call[s].kind \in BatchKinds =>
            \A i \in At(call[s], "err"), j \in At(call[s], "send") : j < i

C7_Witness ==
    \E s \in Slots :
        /\ Done(s, BatchKinds)
        /\ FailedTask(call[s]) > 0
        /\ FailedTask(call[s]) < Len(call[s].list)

\* C8: a batch of n tasks that completes without error delivers n results, the
\* i-th being the result of task i.
C8_ResultsInTaskOrder ==
    \A s \in Slots :
        Done(s, BatchKinds) /\ Completed(call[s]) =>
            LET val == call[s].out[1].val
            IN  /\ call[s].out[1].err = NoError
                /\ Len(val) = Len(call[s].list)
                /\ \A i \in 1..Len(val) :
                       /\ AnswerOf(call[s], i) # Null
                       /\ val[i] = AnswerOf(call[s], i)

C8_Witness ==
    \E s \in Slots :
        /\ Done(s, BatchKinds)
        /\ Len(call[s].list) >= 2
        /\ Completed(call[s])
        /\ call[s].out[1].val[1] # call[s].out[1].val[2]

\* C9: when task k of a batch fails, the caller receives the error together
\* with the results of the tasks before k.
C9_ErrorCarriesEarlierResults ==
    \A s \in Slots :
        Done(s, BatchKinds) /\ Has(call[s], "err") =>
            LET d == call[s].out[1]
            IN  /\ d.err = StatementError(FailedTask(call[s]))
                /\ \A i \in 1..(FailedTask(call[s]) - 1) :
                       /\ i <= Len(d.val)
                       /\ d.val[i] = AnswerOf(call[s], i)

\* C10: in the results of a batch, the entry of a descriptor task that the
\* driver answered with exactly one row is that row; the entry of a raw SQL
\* task is always the row sequence.
C10_SingleRowUnwrapped ==
    \A s \in Slots :
        Done(s, BatchKinds) /\ call[s].out[1].err = NoError =>
            \A i \in 1..Len(call[s].list) :
                LET val == call[s].out[1].val
                IN  /\ isObject(call[s].list[i]) /\ AnswerOf(call[s], i) = Rows(i, 1)
                           => val[i] = RowObject(i)
                    /\ ~isObject(call[s].list[i]) => val[i] = AnswerOf(call[s], i)

\* C11: query() or transaction.query() called with a first argument that is
\* neither a string, a plain object nor an array fails with the 'Invalid query
\* type' error before the call returns; no connection is acquired and no
\* statement is sent.
C11_InvalidQueryType ==
    \A s \in Slots :
        call[s].kind \in InvalidKinds =>
            /\ call[s].pc = "done"
            /\ call[s].out = DeliverError(call[s].hasCallback, InvalidQueryType)
            /\ call[s].trace = <<>>
            /\ call[s].client = NoConn
            /\ Cardinality(pool) = call[s].before
            /\ \A c \in Conns : \A i \in 1..Len(queue[c]) : queue[c][i] # s

C11_Witness ==
    \E s \in Slots :
        /\ call[s].kind = "txInvalid"
        /\ ~call[s].hasCallback
        /\ tx.isActive
        /\ tx.client \in pool

\* C12: queryOne on a statement answered with zero rows completes without
\* error and delivers undefined; answered with one or more rows, it delivers
\* element 0 of the row sequence.
C12_QueryOneFirstRow ==
    \A s \in Slots :
        Done(s, OneKinds) =>
            \A i \in At(call[s], "ok") :
                LET rows == call[s].trace[i].rows
                    d == call[s].out[1]
                IN  rows.shape = "rows" =>
                        /\ d.err = NoError
                        /\ d.via = IF call[s].hasCallback THEN "callback" ELSE "promise"
                        /\ rows.n = 0 => d.val = <<Undefined>>
                        /\ rows.n >= 1 => d.val = <<Entry("element", 0, 0)>>

C12_Witness ==
    \E s \in Slots :
        /\ Done(s, OneKinds)
        /\ call[s].out = <<Delivery("promise", NoError, <<Undefined>>)>>
        /\ \E i \in At(call[s], "ok") : call[s].trace[i].rows = Rows(0, 0)

\* C13: every error the pool or the driver reports during a query, a batch, a
\* transaction.query, a commit or a rollback reaches the caller as that same
\* error, as the callback's first argument or as the promise's rejection.
C13_ErrorsReachCaller ==
    \A s \in Slots :
        Done(s, PooledKinds \cup TxQueryKinds \cup EndKinds) =>
            LET r == call[s]
                via == IF r.hasCallback THEN "callback" ELSE "promise"
            IN  /\ \A i \in At(r, "err") :
                       /\ r.out # <<>>
                       /\ r.out[1].via = via
                       /\ r.out[1].err = StatementError(r.trace[i].stmt.task)
                /\ r.kind \in PooledKinds /\ ~Has(r, "acquire") =>
                       /\ r.out # <<>>
                       /\ r.out[1].via = via
                       /\ r.out[1].err = ConnectionError

\* C14: when a statement of transaction.query() fails on an active handle, the
\* handle stays active, the call sends no ROLLBACK and releases nothing, and
\* the connection stays checked out; as long as neither commit() nor
\* rollback() has been called the handle keeps its connection.
C14_NoAutoRollback ==
    /\ \A s \in Slots :
           Done(s, TxQueryKinds) /\ Has(call[s], "err") /\ ~call[s].afterEnd =>
               /\ tx.isActive
               /\ tx.client \in pool
               /\ \A i \in 1..Len(call[s].trace) :
                      /\ call[s].trace[i].ev # "release"
                      /\ call[s].trace[i].stmt.verb # "ROLLBACK"
    /\ tx.made /\ txLog.endCalls = 0 => tx.isActive /\ tx.client \in pool

C14_Witness ==
    \E s \in Slots :
        /\ Done(s, {"txArray"})
        /\ ~call[s].afterEnd
        /\ FailedTask(call[s]) = 2
        /\ tx.client \in pool

\* C15: every step of a transaction.query() call, whatever its form, leaves
\* the set of checked-out connections as it was, and everything the call does
\* is sending statements on the handle's own connection and taking their
\* answers: it never asks the pool for a connection and never releases one.
C15_TransactionQueryOnOwnConnection ==
    [][\A s \in Slots :
          call'[s].kind \in TxQueryKinds /\ call'[s] # call[s] =>
              /\ pool' = pool
              /\ \A i \in 1..Len(call'[s].trace) :
                     /\ call'[s].trace[i].ev \in {"send", "ok", "err"}
                     /\ call'[s].trace[i].conn = tx.client]_vars

C15_Witness ==
    \E s \in Slots :
        /\ Done(s, {"txArray"})
        /\ tx.isActive
        /\ tx.client \in pool
        /\ Count(call[s].trace, "send") = 2
        /\ Count(call[s].trace, "ok") = 2

\* The caller a call belongs to: the transaction handle (0) for beginTransaction
\* and the handle's own methods, the call itself otherwise.
Owner(s) == IF call[s].kind \in TxQueryKinds \cup EndKinds \cup {"begin"} THEN 0 ELSE s

\* C16: with several callers at once, in any interleaving, the statements in
\* flight on a connection all belong to one caller: a connection the pool
\* handed out is used only by the call or handle that holds it.
C16_ConnectionsNotShared ==
    \A c \in Conns :
        \A i, j \in 1..Len(queue[c]) : Owner(queue[c][i]) = Owner(queue[c][j])

\* Where the builders put things in the sql text, counted in appended pieces:
\* the i-th column name and the i-th VALUES entry of an INSERT, the i-th
\* assignment of an UPDATE (its left side, then its placeholder), the j-th
\* where condition (its left side, its placeholder, its separator).
InsertColumn(i) == 2 * i
InsertEntry(d, i) == 2 * Len(d.fields) + 1 + 2 * i
UpdateLeft(i) == 3 * i - 1
UpdateEntry(i) == 3 * i
WhereLeft(d, j) == 3 * Len(d.fields) + 3 * j
WhereEntry(d, j) == 3 * Len(d.fields) + 3 * j + 1
WhereSeparator(d, j) == 3 * Len(d.fields) + 3 * j + 2

Inserted == built # NoQuery /\ ~data.hasWhere
Updated == built # NoQuery /\ data.hasWhere

IsPlaceholder(piece) == \E n \in 1..(MaxFields + MaxWhere) : piece = Placeholder(n)

\* The placeholders of a sql text, in the order they appear in.
Placeholders(sql) == SelectSeq(sql, IsPlaceholder)

ValuesOf(members) == [i \in 1..Len(members) |-> members[i].val]

IsBound(f) == ~(f.name = "sort_order" /\ f.val = Auto)

\* C17: for a descriptor with a field sort_order: "auto", INSERT or UPDATE,
\* the built values hold no entry for that field, and the sql has the
\* subquery (SELECT COALESCE(MAX(sort_order), 0) + 1 FROM <table>) in the
\* field's position.
C17_SortOrderAuto ==
    built # NoQuery =>
        /\ \A i \in 1..Len(data.fields) :
               ~IsBound(data.fields[i]) =>
                   built.sql[IF data.hasWhere THEN UpdateEntry(i) ELSE InsertEntry(data, i)]
                       = "(SELECT COALESCE(MAX(sort_order), 0) + 1 FROM artists)"
        /\ built.values = ValuesOf(SelectSeq(data.fields, IsBound)) \o ValuesOf(data.where)

\* C18: for a descriptor without where, the columns are emitted in the order
\* of the fields, the placeholders of the VALUES list are $1..$k in
\* increasing order without gaps, k being the length of values, and the
\* j-th placeholder stands where the field of the j-th value stands, also
\* with a sort_order: "auto" field between other fields.
C18_InsertPlaceholders ==
    Inserted =>
        LET k == Len(built.values)
            bound(i) == Len(SelectSeq(SubSeq(data.fields, 1, i), IsBound))
        IN  /\ \A i \in 1..Len(data.fields) :
                   built.sql[InsertColumn(i)] = data.fields[i].name
            /\ Len(Placeholders(built.sql)) = k
            /\ \A j \in 1..k : Placeholders(built.sql)[j] = Placeholder(j)
            /\ \A i \in 1..Len(data.fields) :
                   IsBound(data.fields[i]) =>
                       /\ built.sql[InsertEntry(data, i)] = Placeholder(bound(i))
                       /\ built.values[bound(i)] = data.fields[i].val

C18_Witness ==
    /\ Inserted
    /\ Len(data.fields) = 3
    /\ ~IsBound(data.fields[2])
    /\ Len(built.values) = 2

\* C19: for a descriptor with N fields and M where keys, the field
\* placeholders are $1..$N in field order, the where placeholders
\* $N+1..$N+M in key order, values is the field values followed by the where
\* values, and the where conditions are joined by M-1 AND separators.
C19_UpdatePlaceholders ==
    Updated =>
        LET N == Len(data.fields)
            M == Len(data.where)
        IN  /\ \A i \in 1..N : built.sql[UpdateEntry(i)] = Placeholder(i)
            /\ \A j \in 1..M :
                   /\ built.sql[WhereLeft(data, j)] = data.where[j].name \o " = "
                   /\ built.sql[WhereEntry(data, j)] = Placeholder(N + j)
                   /\ built.sql[WhereSeparator(data, j)] = " AND " <=> j < M
            /\ Len(Placeholders(built.sql)) = N + M
            /\ built.values = ValuesOf(data.fields) \o ValuesOf(data.where)
            /\ Cardinality({p \in 1..Len(built.sql) : built.sql[p] = " AND "})
                   = IF M = 0 THEN 0 ELSE M - 1

C19_Witness ==
    /\ Updated
    /\ Len(data.fields) = 2
    /\ Len(data.where) = 2

\* C20: in an UPDATE a field is rendered as col = col || $n exactly when its
\* value is a plain object with at least one key, and as col = $n for an empty
\* object, an array, null or a scalar; either way the value is the n-th of
\* values.
C20_JsonConcatenated ==
    Updated =>
        \A i \in 1..Len(data.fields) :
            LET f == data.fields[i]
            IN  /\ f.val = JsonObject =>
                       built.sql[UpdateLeft(i)] = f.name \o " = " \o f.name \o " || "
                /\ f.val \in {EmptyObject, ArrayValue, NullValue, Text, Auto} =>
                       built.sql[UpdateLeft(i)] = f.name \o " = "
                /\ built.sql[UpdateEntry(i)] = Placeholder(i)
                /\ built.values[i] = f.val

C20_Witness ==
    /\ Updated
    /\ \E i, j, k \in 1..Len(data.fields) :
           /\ data.fields[i].val = JsonObject
           /\ data.fields[j].val = EmptyObject
           /\ data.fields[k].val = ArrayValue

\* The update of the readme: artists, first_name: 'Mister', id: 38, and
\* returnValue '*'.
MisterUpdate ==
    StatementDescriptor(<<[name |-> "first_name", val |-> Text]>>, TRUE,
                        <<[name |-> "id", val |-> Id]>>, "*")

C21_DoubleSpaces ==
    (data = MisterUpdate /\ built # NoQuery) =>
        /\ Join(built.sql) = "UPDATE artists SET first_name = $1  WHERE id = $2  RETURNING *"
        /\ built.values = <<Text, Id>>

\* C22: insert(descriptor) and update(descriptor) hand the driver the same sql
\* and the same bind values as query(built.sql, built.values) of the query
\* built for the descriptor, array and nested array field values included.
C22_InsertUpdateAsQuery ==
    (sent["queryObject"].called /\ sent["queryStandard"].called) =>
        /\ sent["queryObject"].sql = sent["queryStandard"].sql
        /\ sent["queryObject"].values = sent["queryStandard"].values

\* What does hold: the sql is the same, and the values are those of the
\* descriptor call with every array among them flattened.
C22_SameSqlFlattenedValues ==
    (sent["queryObject"].called /\ sent["queryStandard"].called) =>
        /\ sent["queryObject"].sql = sent["queryStandard"].sql
        /\ sent["queryStandard"].values = flatArray(sent["queryObject"].values)

IsArray(v) == v.is = "array"

\* The values of an argument list that are not arrays, depth first and left
\* to right.
RECURSIVE Leaves(_)
Leaves(list) ==
    IF list = <<>> THEN <<>>
    ELSE (IF IsArray(Head(list)) THEN Leaves(Head(list).items) ELSE <<Head(list)>>)
         \o Leaves(Tail(list))

PlainObjects == {v \in Scalars : isObject(v)}

Occurrences(v, list) == Len(SelectSeq(list, LAMBDA x : x = v))

\* C23: for arguments that are scalars and nested arrays of scalars, flatArray
\* returns every scalar once, depth first and left to right, strings whole.
C23_FlatDepthFirst ==
    (flat.returned /\ \A o \in PlainObjects : Occurrences(o, Leaves(args)) = 0) =>
        flat.value = Leaves(args)

\* 1, [2, [3]], '4' in the model's values: a number, an array holding a number
\* and an array, and a string, returned as four values.
C23_Witness ==
    /\ flat.returned
    /\ args = <<Id, Array(<<Id, Array(<<Id>>)>>), Text>>
    /\ flat.value = <<Id, Id, Id, Text>>

\* C24: every plain object among the arguments, whatever its keys, is kept by
\* flatArray as one value, where it stands.
C24_ObjectsKeptWhole ==
    flat.returned =>
        /\ \A o \in PlainObjects : Occurrences(o, flat.value) = Occurrences(o, Leaves(args))
        /\ Len(flat.value) = Len(Leaves(args))

\* C25: a single statement that succeeds with result.rows undefined gives the
\* caller the empty row sequence, never undefined.
C25_MissingRowsAreEmpty ==
    \A s \in Slots :
        Done(s, SingleKinds) =>
            \A i \in At(call[s], "ok") :
                call[s].trace[i].rows.shape = "undefined" =>
                    /\ call[s].out # <<>>
                    /\ call[s].out[1].err = NoError
                    /\ call[s].out[1].val = <<Rows(0, 0)>>

\* The positions in a call's log where the statement of task i was sent, and
\* where the driver answered it.
SentAt(r, i) == {j \in At(r, "send") : r.trace[j].stmt.task = i}
AnsweredAt(r, i) == {j \in At(r, "ok") \cup At(r, "err") : r.trace[j].stmt.task = i}

\* C26: in a batch the statement of task i + 1 is sent only after the driver
\* responded to task i, and only when it responded with success; never are
\* two statements of one batch in flight.
C26_BatchOneAtATime ==
    \A s \in Slots :
        call[s].kind \in BatchKinds =>
            LET r == call[s]
            IN  /\ \A i \in 1..Len(r.list) : Cardinality(SentAt(r, i)) <= 1
                /\ \A i \in 2..Len(r.list) : \A j \in SentAt(r, i) :
                       \E k \in At(r, "ok") : k < j /\ r.trace[k].stmt.task = i - 1
                /\ Count(r.trace, "send") - Count(r.trace, "ok") - Count(r.trace, "err")
                       \in {0, 1}

\* A batch of two tasks between the first answer and the second.
C26_Witness ==
    \E s \in Slots :
        /\ call[s].kind \in BatchKinds
        /\ call[s].pc = "query"
        /\ SentAt(call[s], 2) # {}
        /\ AnsweredAt(call[s], 1) # {}
        /\ AnsweredAt(call[s], 2) = {}

\* C27: commit or rollback on an active handle sends its statement first; the
\* connection is released and the handle marked inactive only after the driver
\* responded, with success or with an error; while the handle is active and
\* no commit or rollback has been answered the connection stays checked out.
C27_EndReleasesAfterAnswer ==
    /\ \A s \in Slots :
          (call[s].kind \in EndKinds /\ ~call[s].afterEnd) =>
              LET r == call[s]
              IN  /\ r.trace[1].ev = "send"
                  /\ \A j \in At(r, "release") :
                         j > 1 /\ r.trace[j - 1].ev \in {"ok", "err"}
    /\ (tx.made /\ tx.isActive) => (tx.client \in pool /\ txLog.releaseCalls = 0)
    /\ (tx.made /\ ~tx.isActive) => (txLog.ended /\ txLog.released >= 1)

\* A rollback on an active handle that the driver answered with an error: the
\* connection is back in the pool and the handle inactive.
C27_Witness ==
    \E s \in Slots :
        /\ Done(s, {"rollback"})
        /\ ~call[s].afterEnd
        /\ Has(call[s], "err")
        /\ Has(call[s], "release")
        /\ ~tx.isActive
        /\ tx.client \notin pool

\* C28: a query call made with a callback invokes it exactly once after the
\* driver answered: not zero times, and not twice, also when the callback
\* throws on being handed the success.
C28_CallbackExactlyOnce ==
    \A s \in Slots :
        (Done(s, {"standard", "array"}) /\ call[s].hasCallback
            /\ (Has(call[s], "ok") \/ Has(call[s], "err"))) =>
            /\ Len(call[s].out) = 1
            /\ call[s].out[1].via = "callback"

\* The statement the where member of a descriptor calls for.
VerbFor(item) == IF item.where THEN "UPDATE" ELSE "INSERT"

\* C29: which statement a descriptor call executes depends only on the
\* descriptor's where member, not on the entry point: insert(d), update(d),
\* query(d), a batch task d and transaction.query(d) all send an UPDATE when d
\* has where and an INSERT when it has not.
C29_StatementByWhere ==
    \A s \in Slots :
        LET r == call[s]
        IN  \A j \in At(r, "send") :
                /\ r.kind \in {"insert", "update", "object", "txObject"} =>
                       r.trace[j].stmt.verb = VerbFor(r.list[1])
                /\ (r.kind \in BatchKinds /\ isObject(r.list[r.trace[j].stmt.task])) =>
                       r.trace[j].stmt.verb = VerbFor(r.list[r.trace[j].stmt.task])

\* insert() handed a descriptor with where has sent an UPDATE.
C29_Witness ==
    \E s \in Slots :
        /\ call[s].kind = "insert"
        /\ call[s].list = <<UpdateDescriptor>>
        /\ \E j \in At(call[s], "send") : call[s].trace[j].stmt.verb = "UPDATE"

====
